---- MODULE Spec2Model ----
(***************************************************************************)
(* A model of dysh/spectra/core.py: the system-temperature routine         *)
(* dcmeantsys, the exclude-region normaliser exclude_to_region, the        *)
(* baseline fitter baseline, the index lookup region_to_axis_indices and   *)
(* veldef_to_convention; and of the time average of a scan.                *)
(*                                                                         *)
(* Numbers.  Flux samples and tcal are small integers; every derived       *)
(* quantity is an exact fraction [k |-> "num", n, d] in lowest terms.      *)
(* A float that is inf or nan is the single value NonFinite: in the code   *)
(* no finite result is ever computed from a non-finite intermediate.       *)
(*                                                                         *)
(* Arrays are TLA+ sequences; Python index i is sequence position i + 1.   *)
(*                                                                         *)
(* Exceptions are named by their Python class.  tcal is a scalar, fedge is *)
(* positive, and an exclude list holds pairs of one container type.  The   *)
(* fit itself (specutils.fit_continuum) and the SpectralRegion constructor *)
(* are library code: a fit is recorded by the regions handed to it.        *)
(***************************************************************************)
EXTENDS Integers, Sequences, FiniteSets, TLC

VARIABLES
    tsysPc,     \* "idle" | "call" | "done": position of the dcmeantsys call
    tin,        \* the arguments of the dcmeantsys call
    tout,       \* what the dcmeantsys call produced
    regPc,      \* "idle" | "call" | "done": position of the exclude_to_region call
    rin,        \* the arguments of the direct exclude_to_region call
    rout,       \* what the direct exclude_to_region call produced
    nchan,      \* len(spectrum.spectral_axis)
    allNaN,     \* np.isnan(spectrum.data).all()
    stored,     \* spectrum._exclude_regions
    last,       \* the most recent baseline call: its arguments and its outcome
    velPc,      \* "idle" | "call" | "done": position of the veldef_to_convention call
    veldef,     \* the argument of the veldef_to_convention call
    convention, \* what the veldef_to_convention call returned
    idxPc,      \* "idle" | "exclude" | "region" | "done": position of the index lookup
    chans,      \* the exclude argument that the region is made from, if it is made
    iin,        \* the region passed to region_to_axis_indices
    iout,       \* what the lookup produced
    avgPc,      \* "idle" | "call" | "done": position of the timeaverage call
    ain,        \* the integrations of the scan and the weights argument
    aout        \* the averaged spectrum: its flux and its EXPOSURE

\* the variables of the dcmeantsys, exclude_to_region and baseline programs
coreVars == <<tsysPc, tin, tout, regPc, rin, rout, nchan, allNaN, stored, last>>

\* the variables of the veldef_to_convention program
velVars == <<velPc, veldef, convention>>

\* the variables of the region_to_axis_indices program
idxVars == <<idxPc, chans, iin, iout>>

\* the variables of the timeaverage program
avgVars == <<avgPc, ain, aout>>

vars == <<coreVars, velVars, idxVars, avgVars>>

----------------------------------------------------------------------------
(* Bounds of the model *)

\* longest calon / caloff array
MaxChan == 5

\* longest spectral axis
MaxNChan == 3

\* longest list of stored exclude regions
MaxStored == 2

\* most integrations in a scan
MaxInts == 2

\* raw flux samples
FluxVals == {1, 2}

\* calibration temperatures
TcalVals == {1, 3}

\* values of the fedge argument (10 is the default of the signature)
FedgeVals == {2, 3, 10}

\* values of the nedge argument other than None
NedgeVals == {0, 1, 2}

----------------------------------------------------------------------------
(* Python's None and a present value, as records TLC can compare *)

None == [some |-> FALSE, v |-> 0]

Some(x) == [some |-> TRUE, v |-> x]

----------------------------------------------------------------------------
(* Exact arithmetic *)

Abs(x) == IF x < 0 THEN -x ELSE x

Min(a, b) == IF a < b THEN a ELSE b

Max(a, b) == IF a > b THEN a ELSE b

RECURSIVE GCD(_, _)
GCD(a, b) == IF b = 0 THEN a ELSE GCD(b, a % b)

NonFinite == [k |-> "nonfinite", n |-> 0, d |-> 1]

\* the fraction n/d in lowest terms with a positive denominator; x/0 is inf or nan
Frac(n, d) ==
    IF d = 0 THEN NonFinite
    ELSE LET g == GCD(Abs(n), Abs(d))
             s == IF d < 0 THEN -1 ELSE 1
         IN  [k |-> "num", n |-> (s * n) \div g, d |-> (s * d) \div g]

IsNum(x) == x.k = "num"

FAdd(x, y) == IF IsNum(x) /\ IsNum(y) THEN Frac(x.n * y.d + y.n * x.d, x.d * y.d) ELSE NonFinite

FSub(x, y) == IF IsNum(x) /\ IsNum(y) THEN Frac(x.n * y.d - y.n * x.d, x.d * y.d) ELSE NonFinite

FMul(x, y) == IF IsNum(x) /\ IsNum(y) THEN Frac(x.n * y.n, x.d * y.d) ELSE NonFinite

FDiv(x, y) == IF IsNum(x) /\ IsNum(y) THEN Frac(x.n * y.d, x.d * y.n) ELSE NonFinite

\* an integer array as an array of fractions
AsFracs(a) == [i \in 1..Len(a) |-> Frac(a[i], 1)]

RECURSIVE FSum(_)
FSum(a) == IF a = <<>> THEN Frac(0, 1) ELSE FAdd(a[1], FSum(Tail(a)))

\* np.mean: nan on an empty array
NpMean(a) == IF Len(a) = 0 THEN NonFinite ELSE FDiv(FSum(a), Frac(Len(a), 1))

----------------------------------------------------------------------------
(* numpy slicing and broadcasting *)

\* Python's normalisation of one slice bound against an array of length n
SliceBound(i, n) == IF i < 0 THEN Max(i + n, 0) ELSE Min(i, n)

\* the Python indices that a[start:stop] selects, in order
SliceIndices(n, start, stop) ==
    LET lo == SliceBound(start, n)
        hi == SliceBound(stop, n)
    IN  IF hi > lo THEN [j \in 1..(hi - lo) |-> lo + j - 1] ELSE <<>>

\* a[start:stop]
PySlice(a, start, stop) ==
    LET idx == SliceIndices(Len(a), start, stop)
    IN  [j \in 1..Len(idx) |-> a[idx[j] + 1]]

\* whether numpy can broadcast two 1-d arrays of these lengths together
Broadcastable(la, lb) == la = lb \/ la = 1 \/ lb = 1

\* the length of the broadcast of two 1-d arrays
BroadcastLen(la, lb) == IF la = 1 THEN lb ELSE la

\* element j of a 1-d array broadcast to a longer length
BAt(a, j) == IF Len(a) = 1 THEN a[1] ELSE a[j]

\* a - b elementwise with broadcasting
NpSub(a, b) == [j \in 1..BroadcastLen(Len(a), Len(b)) |-> FSub(BAt(a, j), BAt(b, j))]

\* a / b elementwise with broadcasting
NpDiv(a, b) == [j \in 1..BroadcastLen(Len(a), Len(b)) |-> FDiv(BAt(a, j), BAt(b, j))]

----------------------------------------------------------------------------
(* dcmeantsys *)

\* the nedge the routine works with: the argument, or nchan // fedge when it is None
EffNedge(calon, fedge, nedge) == IF nedge = None THEN Len(calon) \div fedge ELSE nedge.v

\* the upper bound the code writes in every slice, -(nedge-1)
SliceStop(ne) == -(ne - 1)

\* the slice x[nedge:-(nedge-1)] of one of the two arrays
EdgeSlice(x, ne) == PySlice(AsFracs(x), ne, SliceStop(ne))

\* mode 0: the mean before the division
TsysMode0(calon, caloff, tcal, ne) ==
    LET meanoff  == NpMean(EdgeSlice(caloff, ne))
        meandiff == NpMean(NpSub(EdgeSlice(calon, ne), EdgeSlice(caloff, ne)))
    IN  FAdd(FMul(FDiv(meanoff, meandiff), Frac(tcal, 1)), Frac(tcal, 2))

\* mode 1: the mean after the division
TsysMode1(calon, caloff, tcal, ne) ==
    LET ratio == NpDiv(EdgeSlice(caloff, ne),
                       NpSub(EdgeSlice(calon, ne), EdgeSlice(caloff, ne)))
    IN  FAdd(FMul(NpMean(ratio), Frac(tcal, 1)), Frac(tcal, 2))

\* the whole call: numpy raises ValueError when the two slices cannot be broadcast
dcmeantsys(calon, caloff, tcal, mode, fedge, nedge) ==
    LET ne   == EffNedge(calon, fedge, nedge)
        won  == SliceIndices(Len(calon), ne, SliceStop(ne))
        woff == SliceIndices(Len(caloff), ne, SliceStop(ne))
    IN  IF ~Broadcastable(Len(won), Len(woff))
        THEN [status |-> "ValueError", value |-> NonFinite, won |-> won, woff |-> woff]
        ELSE [status |-> "ok",
              value  |-> IF mode = 0 THEN TsysMode0(calon, caloff, tcal, ne)
                                     ELSE TsysMode1(calon, caloff, tcal, ne),
              won    |-> won,
              woff   |-> woff]

\* arrays of raw flux samples
RECURSIVE ArraysOfLen(_)
ArraysOfLen(n) ==
    IF n = 0 THEN {<<>>}
    ELSE {Append(a, v) : a \in ArraysOfLen(n - 1), v \in FluxVals}

FluxArrays == UNION {ArraysOfLen(n) : n \in 0..MaxChan}

\* the ways a caller sets the edge: fedge alone, or nedge (fedge left at its default)
EdgeSettings ==
    {[fedge |-> f, nedge |-> None] : f \in FedgeVals}
    \cup {[fedge |-> 10, nedge |-> Some(e)] : e \in NedgeVals}

TsysArgs ==
    {[calon |-> a, caloff |-> b, tcal |-> t, mode |-> m, fedge |-> e.fedge, nedge |-> e.nedge] :
        a \in FluxArrays, b \in FluxArrays, t \in TcalVals, m \in {0, 1}, e \in EdgeSettings}

NoTsysArgs == [calon |-> <<>>, caloff |-> <<>>, tcal |-> 1, mode |-> 0, fedge |-> 10, nedge |-> None]

NoTsysOut == [status |-> "none", value |-> NonFinite, won |-> <<>>, woff |-> <<>>]

----------------------------------------------------------------------------
(* The reference spectrum of exclude_to_region and baseline *)

\* refspec.spectral_axis of an n-channel spectrum, [lower...upper] as the code assumes,
\* in a unit that is not a velocity
Axis(n) == [i \in 1..n |-> 10 + 2 * (i - 1)]

\* refspec.rest_value and refspec.radial_velocity, the latter in the unit "vel"
Spectrum == [rest_value |-> 12, radial_velocity |-> 1]

\* units of a Quantity: the axis unit, a unit twice as large, a velocity, a temperature
Units == {"axis", "alt", "vel", "K"}

\* whether Quantity.to(sa.unit, equivalencies=p.equivalencies) can convert from unit u
Convertible(u) == u \in {"axis", "alt", "vel"}

\* Quantity.to(sa.unit, equivalencies=p.equivalencies): the value in axis units;
\* a velocity goes through the Doppler relation about the rest value
ToAxisUnit(v, u) ==
    CASE u = "axis" -> v
      [] u = "alt"  -> 2 * v
      [] u = "vel"  -> Spectrum.rest_value - 2 * v
      [] OTHER      -> v

\* sa[i] for a Python index i: negative indices count from the end
PyIndexOK(i, n) == -n <= i /\ i < n

PyIndex(sa, i) == IF i < 0 THEN sa[Len(sa) + i + 1] ELSE sa[i + 1]

----------------------------------------------------------------------------
(* exclude_to_region *)

(* The exclude argument is [form, bare, tuple, pairs]:                     *)
(*   form  "none"   : None                                                 *)
(*         "pairs"  : pairs [a, b, u]: two int when u = "chan", else two   *)
(*                    Quantity of unit u                                   *)
(*         "region" : one SpectralRegion, its bounds the single pair       *)
(*   bare  : a single pair [lo, hi] was given rather than a list of pairs  *)
(*   tuple : the pairs are tuples (immutable) rather than lists            *)
(* A region is [lo, hi, u].                                                *)

NoExclude == [form |-> "none", bare |-> FALSE, tuple |-> FALSE, pairs |-> <<>>]

Pair(a, b, u) == [a |-> a, b |-> b, u |-> u]

Region(lo, hi, u) == [lo |-> lo, hi |-> hi, u |-> u]

\* the outcome of handling one pair: the error raised (or "none"), the region built,
\* whether a warning was issued, and the caller's pair object afterwards
PairOut(err, region, warned, pair) ==
    [err |-> err, region |-> region, warned |-> warned, pair |-> pair]

NoRegion == Region(0, 0, "axis")

\* the Quantity branch: convert, sort, check against the axis, build the region.
\* `mutable` says whether pair[0] = ... can be assigned; `pair` is the object assigned to
QuantityPair(pair, mutable, n, fix) ==
    LET sa     == Axis(n)
        offset == IF pair.u = "vel"
                  THEN Spectrum.rest_value - ToAxisUnit(Spectrum.radial_velocity, "vel")
                  ELSE 0
        a1     == offset + ToAxisUnit(pair.a, pair.u)
        b1     == offset + ToAxisUnit(pair.b, pair.u)
        conv   == Pair(a1, b1, "axis")
        lo     == Min(a1, b1)
        hi     == Max(a1, b1)
        oob    == lo < sa[1] \/ hi > sa[n]
    IN  IF ~Convertible(pair.u) THEN PairOut("UnitConversionError", NoRegion, FALSE, pair)
        ELSE IF ~mutable THEN PairOut("TypeError", NoRegion, FALSE, pair)
        ELSE IF oob /\ ~fix THEN PairOut("Exception", NoRegion, FALSE, conv)
        ELSE IF oob THEN PairOut("none", Region(lo, sa[n], "axis"), TRUE, conv)
        ELSE PairOut("none", Region(lo, hi, "axis"), FALSE, conv)

\* the int branch: check the channels, look them up on the axis, then fall through to
\* the Quantity branch with the fresh list [sa[pair[0]], sa[pair[1]]]
ChannelPair(pair, mutable, n, fix) ==
    LET sa       == Axis(n)
        lastchan == n - 1
        oob      == pair.a < 0 \/ pair.b > lastchan
        fixed    == IF oob THEN Pair(pair.a, lastchan, "chan") ELSE pair
        q        == QuantityPair(Pair(PyIndex(sa, fixed.a), PyIndex(sa, fixed.b), "axis"),
                                 TRUE, n, fix)
    IN  IF oob /\ ~fix THEN PairOut("Exception", NoRegion, FALSE, pair)
        ELSE IF oob /\ ~mutable THEN PairOut("TypeError", NoRegion, FALSE, pair)
        ELSE IF ~PyIndexOK(fixed.a, n) \/ ~PyIndexOK(fixed.b, n)
             THEN PairOut("IndexError", NoRegion, oob, fixed)
        ELSE PairOut(q.err, q.region, oob \/ q.warned, fixed)

\* one iteration of `for pair in exclude`
OnePair(pair, mutable, n, fix) ==
    IF pair.u = "chan" THEN ChannelPair(pair, mutable, n, fix)
    ELSE QuantityPair(pair, mutable, n, fix)

\* the outcome of exclude_to_region: the error raised (or "none"), the value returned
\* (None, or Some(list of regions)), the number of warnings, the caller's exclude afterwards
RegOut(err, ret, warnings, exclude) ==
    [err |-> err, ret |-> ret, warnings |-> warnings, exclude |-> exclude]

\* the loop over the pairs from position i on, regionlist and warnings so far in acc
RECURSIVE PairLoop(_, _, _, _, _)
PairLoop(exclude, i, n, fix, acc) ==
    IF i > Len(exclude.pairs) THEN RegOut("none", Some(acc.list), acc.warnings, exclude)
    ELSE LET o    == OnePair(exclude.pairs[i], ~exclude.tuple, n, fix)
             excl == [exclude EXCEPT !.pairs[i] = o.pair]
             warn == acc.warnings + (IF o.warned THEN 1 ELSE 0)
         IN  IF o.err # "none" THEN RegOut(o.err, None, warn, excl)
             ELSE PairLoop(excl, i + 1, n, fix,
                           [list |-> Append(acc.list, o.region), warnings |-> warn])

\* the upper limit a single SpectralRegion is compared with: sa[1]
RegionUpperIndex(n) == 1

\* a single SpectralRegion: checked against the axis, appended, and then the function
\* ends without reaching its return statement
SingleRegion(exclude, n) ==
    LET sa == Axis(n)
        b  == exclude.pairs[1]
        ui == RegionUpperIndex(n)
    IN  IF ToAxisUnit(b.a, b.u) < sa[1] THEN RegOut("UnboundLocalError", None, 0, exclude)
        ELSE IF ~PyIndexOK(ui, n) THEN RegOut("IndexError", None, 0, exclude)
        ELSE IF ToAxisUnit(b.b, b.u) > PyIndex(sa, ui)
             THEN RegOut("UnboundLocalError", None, 0, exclude)
        ELSE RegOut("none", None, 0, exclude)

exclude_to_region(exclude, n, fix) ==
    IF exclude.form = "none" THEN RegOut("none", None, 0, exclude)
    ELSE IF exclude.form = "region" THEN SingleRegion(exclude, n)
    ELSE PairLoop(exclude, 1, n, fix, [list |-> <<>>, warnings |-> 0])

----------------------------------------------------------------------------
(* region_to_axis_indices *)

\* the outcome of region_to_axis_indices: the error raised (or "none") and the
\* indices returned
IdxOut(err, indices) == [err |-> err, indices |-> indices]

\* a slip: the difference taken without np.abs
SignedDistance(x, b) == x - b

\* one entry of np.abs(np.subtract.outer(sa.value, b))
Distance(x, b) == Abs(x - b)

\* a slip: the last of the nearest channels
ArgMinLast(sa, b) ==
    CHOOSE k \in 0..(Len(sa) - 1) :
        /\ \A m \in 0..(Len(sa) - 1) : Distance(sa[k + 1], b) <= Distance(sa[m + 1], b)
        /\ \A m \in (k + 1)..(Len(sa) - 1) : Distance(sa[m + 1], b) > Distance(sa[k + 1], b)

\* one column of argmin(0): the first index at which the distance to b is least
ArgMin(sa, b) ==
    CHOOSE k \in 0..(Len(sa) - 1) :
        /\ \A m \in 0..(Len(sa) - 1) : Distance(sa[k + 1], b) <= Distance(sa[m + 1], b)
        /\ \A m \in 0..(k - 1) : Distance(sa[m + 1], b) > Distance(sa[k + 1], b)

region_to_axis_indices(region, n) ==
    LET sa == Axis(n)
    IN  IF region.u # "axis" THEN IdxOut("Exception", <<>>)
        ELSE IdxOut("none", <<ArgMin(sa, region.lo), ArgMin(sa, region.hi)>>)

----------------------------------------------------------------------------
(* timeaverage: the scan classes are not among the sources; the operation is taken  *)
(* from the description of the time average and from the calls in test_scan.py     *)

\* one calibrated integration: its flux, its exposure and its system temperature
Integration(flux, exposure, tsys) == [flux |-> flux, exposure |-> exposure, tsys |-> tsys]

\* the weight of one integration before normalisation: unity for weights=None,
\* exposure / tsys^2 for weights="tsys", which is also what a call without a weights
\* argument uses
Weight(int, weights) ==
    IF weights = "None" THEN Frac(1, 1) ELSE Frac(int.exposure, int.tsys * int.tsys)

\* the weights normalised to sum to 1
NormWeights(ints, weights) ==
    LET w == [i \in 1..Len(ints) |-> Weight(ints[i], weights)]
    IN  [i \in 1..Len(ints) |-> FDiv(w[i], FSum(w))]

\* the channel-wise weighted combination
AverageFlux(ints, weights) ==
    LET w == NormWeights(ints, weights)
    IN  [c \in 1..Len(ints[1].flux) |->
            FSum([i \in 1..Len(ints) |-> FMul(w[i], Frac(ints[i].flux[c], 1))])]

\* a slip: the exposures averaged like the flux
MeanExposure(ints, weights) ==
    FSum([i \in 1..Len(ints) |-> FMul(NormWeights(ints, weights)[i], Frac(ints[i].exposure, 1))])

\* the exposure of the average: the sum of the exposures
SumExposure(ints, weights) == FSum([i \in 1..Len(ints) |-> Frac(ints[i].exposure, 1)])

timeaverage(ints, weights) ==
    [data |-> AverageFlux(ints, weights), exposure |-> SumExposure(ints, weights)]

----------------------------------------------------------------------------
(* baseline *)

_valid_models == {"polynomial", "chebyshev"}

\* the string "None" stands for Python's None, a valid exclude_action
_valid_exclude_actions == {"replace", "append", "None"}

\* kwargs as given by the caller, defaults filled in: model, exclude_action,
\* fix_exclude, and whether a key "exclude_region" was passed
KwargsOpts(model, action, fix, key) ==
    [model |-> model, exclude_action |-> action, fix_exclude |-> fix, exclude_region |-> key]

\* the outcome of a baseline call: "fit" (fit_continuum ran on `regions`), "skipped"
\* (None returned without a fit) or "raised" (exception err); the spectrum's
\* _exclude_regions and the caller's exclude object afterwards
BaseOut(outcome, err, regions, warnings, st, exclude) ==
    [outcome |-> outcome, err |-> err, regions |-> regions, warnings |-> warnings,
     stored |-> st, exclude |-> exclude]

Raised(err, warnings, st, exclude) == BaseOut("raised", err, None, warnings, st, exclude)

\* exclude_action == 'replace'
ReplaceAction(r, st) == BaseOut("fit", "none", r.ret, r.warnings, r.ret, r.exclude)

\* a slip: 'append' that assigns the new list instead of extending the stored one
AppendAsReplace(r, st) == BaseOut("fit", "none", r.ret, r.warnings, r.ret, r.exclude)

\* exclude_action == 'append': list.extend on the stored list
AppendAction(r, st) ==
    IF ~st.some THEN Raised("AttributeError", r.warnings, st, r.exclude)
    ELSE IF ~r.ret.some THEN Raised("TypeError", r.warnings, st, r.exclude)
    ELSE LET ext == Some(st.v \o r.ret.v)
         IN  BaseOut("fit", "none", ext, r.warnings, ext, r.exclude)

\* exclude_action is None: neither branch is taken
NoneAction(r, st) == BaseOut("fit", "none", r.ret, r.warnings, st, r.exclude)

\* the `if exclude is not None` block
WithExclude(kw, exclude, n, st) ==
    LET r == exclude_to_region(exclude, n, kw.fix_exclude)
    IN  IF r.err # "none" THEN Raised(r.err, r.warnings, st, r.exclude)
        ELSE IF kw.exclude_action = "replace" THEN ReplaceAction(r, st)
        ELSE IF kw.exclude_action = "append" THEN AppendAction(r, st)
        ELSE NoneAction(r, st)

\* the ValueError for a bad exclude_action formats kwargs["exclude_region"]
ActionError(kw) == IF kw.exclude_region THEN "ValueError" ELSE "KeyError"

\* a slip: the model check left out
NoModelCheck(kw) == TRUE

\* the model check comes first
ModelCheck(kw) == kw.model \in _valid_models

\* a slip: the all-NaN test left out
NeverAllNaN(nan) == FALSE

\* np.isnan(p.data).all()
AllNaN(nan) == nan

\* a slip: exclude=None fits without any exclude regions
IgnorePreset(st, exclude) == BaseOut("fit", "none", None, 0, st, exclude)

\* exclude is None: the spectrum's preset exclude regions are used
UsePreset(st, exclude) == BaseOut("fit", "none", st, 0, st, exclude)

baseline(kw, exclude, n, nan, st) ==
    IF ~ModelCheck(kw) THEN Raised("ValueError", 0, st, exclude)
    ELSE IF kw.exclude_action \notin _valid_exclude_actions
         THEN Raised(ActionError(kw), 0, st, exclude)
    ELSE IF AllNaN(nan) THEN BaseOut("skipped", "none", None, 0, st, exclude)
    ELSE IF exclude.form # "none" THEN WithExclude(kw, exclude, n, st)
    ELSE UsePreset(st, exclude)

----------------------------------------------------------------------------
(* veldef_to_convention *)

\* a str is the sequence of its characters
UpperCase == <<"A", "B", "C", "D", "E", "F", "G", "H", "I", "J", "K", "L", "M",
               "N", "O", "P", "Q", "R", "S", "T", "U", "V", "W", "X", "Y", "Z">>

LowerCase == <<"a", "b", "c", "d", "e", "f", "g", "h", "i", "j", "k", "l", "m",
               "n", "o", "p", "q", "r", "s", "t", "u", "v", "w", "x", "y", "z">>

\* str.lower() on one character: a capital becomes its small letter, any other
\* character stays
CharLower(c) ==
    IF \E i \in 1..Len(UpperCase) : UpperCase[i] = c
    THEN LowerCase[CHOOSE i \in 1..Len(UpperCase) : UpperCase[i] = c]
    ELSE c

\* a slip: the prefix compared as it is written
NoLower(str) == str

\* str.lower()
StrLower(str) == [i \in 1..Len(str) |-> CharLower(str[i])]

\* veldef[0:4].lower()
Prefix(str) == StrLower(PySlice(str, 0, 4))

\* the convention string, or "None" for Python's None
veldef_to_convention(str) ==
    LET prefix == Prefix(str)
    IN  IF prefix = <<"o", "p", "t", "i">> THEN "optical"
        ELSE IF prefix = <<"v", "e", "l", "o">> \/ prefix = <<"r", "a", "d", "i">> THEN "radio"
        ELSE IF prefix = <<"r", "e", "l", "a">> THEN "relativistic"
        ELSE "None"

----------------------------------------------------------------------------
(* Inputs *)

\* the exclude arguments made of the pairs of one pool: a bare pair, a list of one
\* pair, each with list pairs or tuple pairs
Singles(pool) ==
    {[form |-> "pairs", bare |-> b, tuple |-> t, pairs |-> <<p>>] :
        b \in BOOLEAN, t \in BOOLEAN, p \in pool}

\* lists of two pairs of one pool
Doubles(pool) ==
    {[form |-> "pairs", bare |-> FALSE, tuple |-> t, pairs |-> <<p, q>>] :
        t \in BOOLEAN, p \in pool, q \in pool}

PairsOver(vals, u) == {Pair(a, b, u) : a \in vals, b \in vals}

\* single SpectralRegions with lower < upper
Regions(vals, u) ==
    {[form |-> "region", bare |-> FALSE, tuple |-> FALSE, pairs |-> <<p>>] :
        p \in {q \in PairsOver(vals, u) : q.a < q.b}}

\* axis-unit values from one channel below the axis to one channel above it
AxisRange(n) == (Axis(n)[1] - 2)..(Axis(n)[n] + 2)

\* the values at the ends of the axis and one channel beyond them
AxisEnds(n) == {Axis(n)[1] - 2, Axis(n)[1], Axis(n)[n], Axis(n)[n] + 2}

\* the exclude arguments of the direct exclude_to_region calls
RegionExcludes(n) ==
    {NoExclude}
    \cup Singles(PairsOver((-(n + 1))..(n + 1), "chan"))
    \cup Singles(PairsOver(AxisRange(n), "axis"))
    \cup Singles(PairsOver({x \in 4..9 : 2 * x \in AxisRange(n)}, "alt"))
    \cup Singles(PairsOver((-1)..3, "vel"))
    \cup Singles(PairsOver({1, 2}, "K"))
    \cup Doubles(PairsOver({-1, 0, n - 1, n}, "chan")
                 \cup PairsOver(AxisEnds(n), "axis")
                 \cup {Pair(1, 2, "K")})
    \cup Regions(AxisRange(n), "axis")
    \cup Regions({x \in 4..9 : 2 * x \in AxisRange(n)}, "alt")

\* an exclude argument of one pair or of a list of pairs
Excl(bare, tuple, pairs) == [form |-> "pairs", bare |-> bare, tuple |-> tuple, pairs |-> pairs]

\* the exclude arguments of the baseline calls on an n-channel spectrum: None; channel
\* pairs inside the axis, reversed, and past its end; lists of two pairs; Quantity
\* pairs in each unit; tuples; SpectralRegions inside and outside the axis
BaselineExcludes(n) ==
    LET lo == Axis(n)[1]
        hi == Axis(n)[n]
    IN  {NoExclude}
        \cup {Excl(TRUE, FALSE, <<p>>) :
                p \in {Pair(0, 1, "chan"), Pair(0, n - 1, "chan"), Pair(n - 2, n - 1, "chan"),
                       Pair(0, n, "chan"), Pair(n, n - 1, "chan")}}
        \cup {Excl(TRUE, TRUE, <<Pair(0, n, "chan")>>),
              Excl(FALSE, TRUE, <<Pair(0, n - 1, "chan")>>),
              Excl(FALSE, FALSE, <<Pair(n - 2, n - 1, "chan"), Pair(0, 1, "chan")>>),
              Excl(FALSE, FALSE, <<Pair(0, n, "chan"), Pair(n, n, "chan")>>)}
        \cup {Excl(TRUE, FALSE, <<Pair(lo, hi, "axis")>>),
              Excl(TRUE, FALSE, <<Pair(hi + 2, lo, "axis")>>),
              Excl(TRUE, TRUE, <<Pair(lo, hi, "axis")>>),
              Excl(TRUE, FALSE, <<Pair(5, 6, "alt")>>),
              Excl(TRUE, FALSE, <<Pair(1, 2, "vel")>>),
              Excl(TRUE, FALSE, <<Pair(1, 2, "K")>>)}
        \cup {r \in Regions({lo, lo + 2, hi, hi + 2}, "axis") : r.pairs[1].a = lo}

\* a baseline call: its keyword arguments and its exclude
Call(kw, exclude) == [kw |-> kw, exclude |-> exclude]

\* the baseline calls: every exclude with every valid action and fix_exclude under the
\* default model, every action under the other valid model, and the calls with an
\* unknown model or an unknown action, with and without a stray key "exclude_region"
BaselineCalls(n) ==
    LET few == {NoExclude, Excl(TRUE, FALSE, <<Pair(0, n - 1, "chan")>>)}
    IN  {Call(KwargsOpts("polynomial", a, f, FALSE), e) :
            a \in _valid_exclude_actions, f \in BOOLEAN, e \in BaselineExcludes(n)}
        \cup {Call(KwargsOpts("chebyshev", a, FALSE, FALSE), e) :
                a \in _valid_exclude_actions, e \in few}
        \cup {Call(KwargsOpts("gaussian", a, FALSE, FALSE), e) :
                a \in _valid_exclude_actions \cup {"merge"}, e \in few}
        \cup {Call(KwargsOpts(m, "merge", FALSE, k), e) :
                m \in {"polynomial", "gaussian"}, k \in BOOLEAN, e \in few}

\* str.upper() on one character
CharUpper(c) ==
    IF \E i \in 1..Len(LowerCase) : LowerCase[i] = c
    THEN UpperCase[CHOOSE i \in 1..Len(LowerCase) : LowerCase[i] = c]
    ELSE c

\* the string with the characters at the positions of `caps` made capitals
Cased(str, caps) == [i \in 1..Len(str) |-> IF i \in caps THEN CharUpper(str[i]) ELSE str[i]]

\* four-letter beginnings of a VELDEF: the four that are recognised, and ones that
\* differ from them in one letter, in the order of the letters, or altogether
Stems ==
    {<<"o", "p", "t", "i">>, <<"v", "e", "l", "o">>, <<"r", "a", "d", "i">>,
     <<"r", "e", "l", "a">>, <<"o", "p", "t", "o">>, <<"v", "e", "l", "a">>,
     <<"r", "a", "d", "1">>, <<"i", "t", "p", "o">>, <<"f", "r", "e", "q">>,
     <<"-", "o", "p", "t">>}

\* what follows the beginning, as in 'OPTI-HELO' and 'VELO-LSR'
Tails == {<<>>, <<"-", "L", "S", "R">>, <<"i">>}

\* the VELDEF strings of the calls: each beginning in every mix of capitals and small
\* letters with each tail, and each shorter string cut from a beginning
VeldefStrings ==
    {Cased(w, caps) \o t : w \in Stems, caps \in SUBSET (1..4), t \in Tails}
    \cup {SubSeq(Cased(w, caps), 1, k) : w \in Stems, caps \in {{}, {1}, 1..4}, k \in 0..3}

\* the regions of the direct region_to_axis_indices calls: bounds on the channels,
\* between them and off the axis, in the axis unit and in other units
IndexRegions(n) ==
    {Region(lo, hi, u) : lo \in AxisRange(n), hi \in AxisRange(n), u \in {"axis", "alt", "vel", "K"}}

\* the channel pairs that a region is made from: a bare pair or a list of one pair,
\* on the axis and past its ends
IndexChannels(n) == Singles(PairsOver((-1)..n, "chan"))

\* the integrations of a scan of nc channels
Integrations(nc) ==
    {Integration(f, e, t) : f \in ArraysOfLen(nc), e \in {1, 2}, t \in {1, 2}}

\* the scans: 1..MaxInts integrations of one or two channels each
RECURSIVE ScansOf(_, _)
ScansOf(nc, k) ==
    IF k = 0 THEN {<<>>}
    ELSE {Append(sc, int) : sc \in ScansOf(nc, k - 1), int \in Integrations(nc)}

Scans == UNION {ScansOf(nc, k) : nc \in {1, 2}, k \in 1..MaxInts}

\* the weights argument: left out, None, or "tsys"
WeightsArgs == {"default", "None", "tsys"}

----------------------------------------------------------------------------
(* The programs: a dcmeantsys call, a direct exclude_to_region call, a spectrum  *)
(* that baseline is called on again and again, a veldef_to_convention call, a    *)
(* region_to_axis_indices lookup, and a timeaverage call                         *)

NoRegArgs == [exclude |-> NoExclude, fix |-> FALSE]

NoRegOut == RegOut("none", None, 0, NoExclude)

NoKwargs == KwargsOpts("polynomial", "replace", FALSE, FALSE)

\* no baseline call yet
NoCall ==
    [called |-> FALSE, kw |-> NoKwargs, exclude |-> NoExclude, before |-> None,
     out |-> BaseOut("none", "none", None, 0, None, NoExclude)]

IdleTsys == tsysPc = "idle" /\ tin = NoTsysArgs /\ tout = NoTsysOut

IdleRegion == regPc = "idle" /\ rin = NoRegArgs /\ rout = NoRegOut

IdleBaseline == allNaN = FALSE /\ stored = None /\ last = NoCall

IdleVeldef == velPc = "idle" /\ veldef = <<>> /\ convention = "None"

NoIdxOut == IdxOut("none", <<>>)

IdleIndices == idxPc = "idle" /\ chans = NoExclude /\ iin = NoRegion /\ iout = NoIdxOut

NoAvgArgs == [ints |-> <<>>, weights |-> "default"]

NoAvgOut == [data |-> <<>>, exposure |-> Frac(0, 1)]

IdleAverage == avgPc = "idle" /\ ain = NoAvgArgs /\ aout = NoAvgOut

\* the programs that come after baseline in this module are not running
IdleRest == IdleVeldef /\ IdleIndices /\ IdleAverage

\* dcmeantsys is called with some arguments
InitTsys ==
    /\ tsysPc = "call"
    /\ tin \in TsysArgs
    /\ tout = NoTsysOut
    /\ IdleRegion
    /\ nchan = 1
    /\ IdleBaseline
    /\ IdleRest

\* dcmeantsys runs and returns or raises
TsysReturn ==
    /\ tsysPc = "call"
    /\ tsysPc' = "done"
    /\ tout' = dcmeantsys(tin.calon, tin.caloff, tin.tcal, tin.mode, tin.fedge, tin.nedge)
    /\ UNCHANGED <<tin, regPc, rin, rout, nchan, allNaN, stored, last, velVars, idxVars, avgVars>>

NextTsys == TsysReturn

SpecTsys == InitTsys /\ [][NextTsys]_vars

\* exclude_to_region is called on an nchan-channel spectrum
InitRegion ==
    /\ IdleTsys
    /\ nchan \in 1..MaxNChan
    /\ regPc = "call"
    /\ rin \in [exclude : RegionExcludes(nchan), fix : BOOLEAN]
    /\ rout = NoRegOut
    /\ IdleBaseline
    /\ IdleRest

\* exclude_to_region runs and returns or raises
RegionReturn ==
    /\ regPc = "call"
    /\ regPc' = "done"
    /\ rout' = exclude_to_region(rin.exclude, nchan, rin.fix)
    /\ UNCHANGED <<tsysPc, tin, tout, rin, nchan, allNaN, stored, last, velVars, idxVars, avgVars>>

NextRegion == RegionReturn

SpecRegion == InitRegion /\ [][NextRegion]_vars

\* a spectrum of two channels or more: its length, whether its samples are all NaN,
\* and its preset exclude regions, a list of regions or None
Init ==
    /\ IdleTsys
    /\ IdleRegion
    /\ nchan \in 2..MaxNChan
    /\ allNaN \in BOOLEAN
    /\ stored \in {None, Some(<<>>)}
    /\ last = NoCall
    /\ IdleRest

\* one call of baseline(spectrum, order, exclude, **kwargs)
Baseline(kw, exclude) ==
    \E out \in {baseline(kw, exclude, nchan, allNaN, stored)} :
        /\ out.stored.some => Len(out.stored.v) <= MaxStored
        /\ stored' = out.stored
        /\ last' = [called |-> TRUE, kw |-> kw, exclude |-> exclude, before |-> stored,
                    out |-> out]
        /\ UNCHANGED <<tsysPc, tin, tout, regPc, rin, rout, nchan, allNaN, velVars, idxVars, avgVars>>

Next == \E c \in BaselineCalls(nchan) : Baseline(c.kw, c.exclude)

Spec == Init /\ [][Next]_vars

\* veldef_to_convention is called with some string
InitVeldef ==
    /\ IdleTsys
    /\ IdleRegion
    /\ nchan = 1
    /\ IdleBaseline
    /\ IdleIndices
    /\ IdleAverage
    /\ velPc = "call"
    /\ veldef \in VeldefStrings
    /\ convention = "None"

\* veldef_to_convention returns
VeldefReturn ==
    /\ velPc = "call"
    /\ velPc' = "done"
    /\ convention' = veldef_to_convention(veldef)
    /\ UNCHANGED <<coreVars, veldef, idxVars, avgVars>>

NextVeldef == VeldefReturn

SpecVeldef == InitVeldef /\ [][NextVeldef]_vars

\* a region is looked up on an nchan-channel axis: a region given as it is, or the
\* region that exclude_to_region makes of a channel pair
InitIndices ==
    /\ IdleTsys
    /\ IdleRegion
    /\ nchan \in 1..MaxNChan
    /\ IdleBaseline
    /\ IdleVeldef
    /\ IdleAverage
    /\ iout = NoIdxOut
    /\ \/ idxPc = "region" /\ chans = NoExclude /\ iin \in IndexRegions(nchan)
       \/ idxPc = "exclude" /\ chans \in IndexChannels(nchan) /\ iin = NoRegion

\* exclude_to_region makes the region, or raises
RegionFromChannels ==
    /\ idxPc = "exclude"
    /\ \E r \in {exclude_to_region(chans, nchan, FALSE)} :
           IF r.err = "none" /\ r.ret.some
           THEN idxPc' = "region" /\ iin' = r.ret.v[1] /\ iout' = iout
           ELSE idxPc' = "done" /\ iin' = iin /\ iout' = IdxOut(r.err, <<>>)
    /\ UNCHANGED <<coreVars, velVars, chans, avgVars>>

\* region_to_axis_indices runs and returns or raises
IndicesReturn ==
    /\ idxPc = "region"
    /\ idxPc' = "done"
    /\ iout' = region_to_axis_indices(iin, nchan)
    /\ UNCHANGED <<coreVars, velVars, chans, iin, avgVars>>

NextIndices == RegionFromChannels \/ IndicesReturn

SpecIndices == InitIndices /\ [][NextIndices]_vars

\* timeaverage is called on a scan
InitAverage ==
    /\ IdleTsys
    /\ IdleRegion
    /\ nchan = 1
    /\ IdleBaseline
    /\ IdleVeldef
    /\ IdleIndices
    /\ avgPc = "call"
    /\ ain \in [ints : Scans, weights : WeightsArgs]
    /\ aout = NoAvgOut

\* timeaverage returns the averaged spectrum
AverageReturn ==
    /\ avgPc = "call"
    /\ avgPc' = "done"
    /\ aout' = timeaverage(ain.ints, ain.weights)
    /\ UNCHANGED <<coreVars, velVars, idxVars, ain>>

NextAverage == AverageReturn

SpecAverage == InitAverage /\ [][NextAverage]_vars

----------------------------------------------------------------------------
(* Claims about dcmeantsys, checked under SpecTsys *)

TsysDone == tsysPc = "done"

SameLength == Len(tin.calon) = Len(tin.caloff)

\* the channels [nedge, nchan - nedge) of an nchan-channel array, in order
TrimmedWindow(n, ne) == SliceIndices(n, ne, Max(n - ne, 0))

\* the elements of an integer array at the Python indices idx
Take(a, idx) == [j \in 1..Len(idx) |-> Frac(a[idx[j] + 1], 1)]

\* Tsys by the two formulas, over the channels idx of both arrays
FormulaTsys(calon, caloff, tcal, mode, idx) ==
    LET on   == Take(calon, idx)
        off  == Take(caloff, idx)
        diff == [j \in 1..Len(idx) |-> FSub(on[j], off[j])]
        quot == [j \in 1..Len(idx) |-> FDiv(off[j], diff[j])]
        m    == IF mode = 0 THEN FDiv(NpMean(off), NpMean(diff)) ELSE NpMean(quot)
    IN  FAdd(FMul(m, Frac(tcal, 1)), Frac(tcal, 2))

\* C1: for equal-length inputs, dcmeantsys takes nedge = nchan // fedge when nedge is
\* not given and the given nedge otherwise, and averages both arrays over the channels
\* [nedge, nchan - nedge), that is over nchan - 2*nedge channels, in either mode.
C1_EdgeWindow ==
    TsysDone /\ SameLength =>
        LET ne == IF tin.nedge.some THEN tin.nedge.v ELSE Len(tin.calon) \div tin.fedge
            w  == TrimmedWindow(Len(tin.calon), ne)
        IN  /\ tout.won = w
            /\ tout.woff = w
            /\ (2 * ne <= Len(tin.calon) => Len(tout.woff) = Len(tin.calon) - 2 * ne)

\* C2: for equal-length inputs, dcmeantsys returns mean(caloff) / mean(calon - caloff)
\* * tcal + tcal/2 in mode 0 and mean(caloff / (calon - caloff)) * tcal + tcal/2 in
\* mode 1, the means taken over the trimmed window [nedge, nchan - nedge).
C2_TsysFormula ==
    TsysDone /\ SameLength /\ Len(tin.calon) >= 1 =>
        LET ne == EffNedge(tin.calon, tin.fedge, tin.nedge)
        IN  /\ tout.status = "ok"
            /\ tout.value = FormulaTsys(tin.calon, tin.caloff, tin.tcal, tin.mode,
                                        TrimmedWindow(Len(tin.calon), ne))

\* every sample of the array a is v
Constant(a, v) == \A i \in 1..Len(a) : a[i] = v

\* C3: on constant arrays with calon = 2 * caloff, caloff > 0, of any length
\* nchan >= 1 and with any edge setting that leaves nedge < nchan/2, dcmeantsys
\* returns tcal + tcal/2, in mode 0 and in mode 1.
C3_ConstantArrays ==
    LET n  == Len(tin.calon)
        ne == EffNedge(tin.calon, tin.fedge, tin.nedge)
    IN  (/\ TsysDone
         /\ SameLength
         /\ n >= 1
         /\ 2 * ne < n
         /\ \E c \in FluxVals : Constant(tin.caloff, c) /\ Constant(tin.calon, 2 * c))
        => tout.status = "ok" /\ tout.value = Frac(3 * tin.tcal, 2)

\* C4: a dcmeantsys call with calon and caloff of different lengths ends in the
\* shape-mismatch error and returns no Tsys, in every mode and with every edge setting.
C4_ShapeMismatch ==
    (TsysDone /\ ~SameLength /\ Len(tin.calon) >= 1 /\ Len(tin.caloff) >= 1)
        => tout.status = "ValueError"

----------------------------------------------------------------------------
(* Claims about baseline, checked under Spec *)

\* the last baseline call ran fit_continuum
Fitted == last.called /\ last.out.outcome = "fit"

\* the regions the exclude argument of a call denotes: the SpectralRegion itself, or
\* one region per pair as exclude_to_region builds them
NormalizedRegions(exclude, n, fix) ==
    IF exclude.form = "region"
    THEN LET b == exclude.pairs[1] IN <<Region(b.a, b.b, b.u)>>
    ELSE exclude_to_region(exclude, n, fix).ret.v

\* C5: a baseline call with exclude_action = None fits with exactly the regions
\* stored on the spectrum, whatever exclude was passed, and leaves the stored list
\* as it was.
C5_NoneActionReusesStored ==
    Fitted /\ last.kw.exclude_action = "None" =>
        /\ last.out.regions = last.before
        /\ stored = last.before

\* C6: after a successful baseline call with an exclude and exclude_action =
\* 'replace', the stored list is exactly the normalized regions of this call, every
\* earlier region gone, and the fit used that list.
C6_ReplaceStoresRegions ==
    Fitted /\ last.exclude.form # "none" /\ last.kw.exclude_action = "replace" =>
        /\ stored = Some(NormalizedRegions(last.exclude, nchan, last.kw.fix_exclude))
        /\ last.out.regions = stored

\* C7: after a successful baseline call with an exclude and exclude_action =
\* 'append', the stored list is the list stored before followed by the normalized
\* regions of this call, and the fit used the whole list.
C7_AppendKeepsEarlier ==
    Fitted /\ last.exclude.form # "none" /\ last.kw.exclude_action = "append" =>
        /\ last.before.some
        /\ stored = Some(last.before.v
                         \o NormalizedRegions(last.exclude, nchan, last.kw.fix_exclude))
        /\ last.out.regions = stored

\* an append onto a list that held a region already, adding another region
C7_Witness ==
    /\ Fitted
    /\ last.kw.exclude_action = "append"
    /\ last.exclude.form = "pairs"
    /\ last.before.some
    /\ Len(last.before.v) = 1
    /\ Len(stored.v) = 2
    /\ stored.v[1] # stored.v[2]

\* C8: a baseline call with an exclude_action other than 'replace', 'append' and
\* None (and a valid model) raises ValueError and runs no fit.
C8_InvalidActionValueError ==
    (/\ last.called
     /\ last.kw.model \in _valid_models
     /\ last.kw.exclude_action \notin _valid_exclude_actions)
    => last.out.outcome = "raised" /\ last.out.err = "ValueError"

\* C9: a baseline call with a model other than 'polynomial' and 'chebyshev' raises
\* ValueError before anything else happens: no fit, no warning, the stored list and
\* the caller's exclude as they were.
C9_InvalidModelFirst ==
    last.called /\ last.kw.model \notin _valid_models =>
        /\ last.out.outcome = "raised"
        /\ last.out.err = "ValueError"
        /\ last.out.warnings = 0
        /\ last.out.exclude = last.exclude
        /\ stored = last.before

\* an unknown model on a spectrum that holds regions, with an exclude passed
C9_Witness ==
    /\ last.called
    /\ last.kw.model \notin _valid_models
    /\ last.exclude.form # "none"
    /\ last.before.some
    /\ Len(last.before.v) > 0
    /\ last.out.outcome = "raised"

----------------------------------------------------------------------------
(* Claims about exclude_to_region, checked under SpecRegion *)

RegionDone == regPc = "done"

\* a pair or region whose converted bounds lie on the axis / reach outside it
Within(p, n) ==
    IF p.u = "chan" THEN 0 <= p.a /\ p.a <= n - 1 /\ 0 <= p.b /\ p.b <= n - 1
    ELSE /\ Axis(n)[1] <= Min(ToAxisUnit(p.a, p.u), ToAxisUnit(p.b, p.u))
         /\ Max(ToAxisUnit(p.a, p.u), ToAxisUnit(p.b, p.u)) <= Axis(n)[n]

Outside(p, n) ==
    IF p.u = "chan" THEN p.a < 0 \/ p.b > n - 1
    ELSE \/ Min(ToAxisUnit(p.a, p.u), ToAxisUnit(p.b, p.u)) < Axis(n)[1]
         \/ Max(ToAxisUnit(p.a, p.u), ToAxisUnit(p.b, p.u)) > Axis(n)[n]

\* C10: with fix_exclude = False, exclude_to_region raises for every exclude that
\* holds a region not fully within the spectral axis, and raises for no exclude whose
\* regions all lie fully within it (channel pairs, pairs in the axis unit or a unit
\* that scales to it, given as lists, and SpectralRegions).
C10_RaisesIffOutOfBounds ==
    LET e  == rin.exclude
        ps == {e.pairs[i] : i \in 1..Len(e.pairs)}
    IN  (/\ RegionDone
         /\ ~rin.fix
         /\ e.form # "none"
         /\ ~e.tuple
         /\ \A p \in ps : p.u \in {"chan", "axis", "alt"})
        => /\ (\E p \in ps : Outside(p, nchan)) => rout.err # "none"
           /\ (\A p \in ps : Within(p, nchan)) => rout.err = "none"

\* the bounds of a pair in axis units, lower first
LowerOf(p) == Min(ToAxisUnit(p.a, p.u), ToAxisUnit(p.b, p.u))

UpperOf(p) == Max(ToAxisUnit(p.a, p.u), ToAxisUnit(p.b, p.u))

\* C11: with fix_exclude = True, a pair whose upper bound is beyond the axis maximum
\* (and whose lower bound is on the axis) does not abort the call: a warning is issued
\* and the region returned runs from the pair's lower bound to the axis maximum.
C11_FixClampsUpper ==
    LET e  == rin.exclude
        p  == e.pairs[1]
        sa == Axis(nchan)
    IN  (/\ RegionDone
         /\ rin.fix
         /\ e.form = "pairs"
         /\ Len(e.pairs) = 1
         /\ p.u \in {"chan", "axis", "alt"}
         /\ IF p.u = "chan"
            THEN 0 <= p.a /\ p.a <= nchan - 1 /\ p.b > nchan - 1
            ELSE sa[1] <= LowerOf(p) /\ LowerOf(p) <= sa[nchan] /\ UpperOf(p) > sa[nchan])
        => /\ rout.err = "none"
           /\ rout.warnings >= 1
           /\ rout.ret = Some(<<Region(IF p.u = "chan" THEN sa[p.a + 1] ELSE LowerOf(p),
                                       sa[nchan], "axis")>>)

\* C12: every region exclude_to_region returns has lower <= upper and lies within the
\* spectral axis, with fix_exclude False and True.
C12_ReturnedWithinAxis ==
    (/\ RegionDone
     /\ rout.err = "none"
     /\ rout.ret.some
     /\ \A i \in 1..Len(rin.exclude.pairs) : rin.exclude.pairs[i].u \in {"chan", "axis", "alt"})
    =>
        \A i \in 1..Len(rout.ret.v) :
            LET r == rout.ret.v[i]
            IN  /\ r.lo <= r.hi
                /\ Axis(nchan)[1] <= r.lo
                /\ r.hi <= Axis(nchan)[nchan]

\* C14 (exclude_to_region): when the call raises for an out-of-bounds region or for a
\* unit that cannot be converted, the caller's exclude, pairs included, is as it was.
C14_NoMutationBeforeRaise ==
    (/\ RegionDone
     /\ rout.err \in {"Exception", "UnitConversionError"}
     /\ \A i \in 1..Len(rin.exclude.pairs) :
            rin.exclude.pairs[i].u \in {"chan", "axis", "alt", "K"})
    => rout.exclude = rin.exclude

\* C18: exclude_to_region returns a list for every accepted exclude: one region per
\* pair, the one region for a single SpectralRegion, the empty list for None; it
\* never returns None.
C18_AlwaysReturnsList ==
    LET e == rin.exclude
    IN  RegionDone /\ rout.err = "none" =>
            /\ rout.ret.some
            /\ e.form = "none" => rout.ret.v = <<>>
            /\ e.form = "pairs" => Len(rout.ret.v) = Len(e.pairs)
            /\ e.form = "region" =>
                  rout.ret.v = <<Region(e.pairs[1].a, e.pairs[1].b, e.pairs[1].u)>>

----------------------------------------------------------------------------
(* More claims about baseline, checked under Spec *)

ValidCall == last.called /\ last.kw.model \in _valid_models
                         /\ last.kw.exclude_action \in _valid_exclude_actions

\* C13: a baseline call with a valid model and a valid exclude_action on a spectrum
\* whose samples are all NaN skips the fit and returns None without raising, whatever
\* the exclude argument is, and leaves the stored exclude regions and the caller's
\* exclude as they were.
C13_AllNaNSkipsFit ==
    ValidCall /\ allNaN =>
        /\ last.out.outcome = "skipped"
        /\ last.out.err = "none"
        /\ ~last.out.regions.some
        /\ last.out.warnings = 0
        /\ stored = last.before
        /\ last.out.exclude = last.exclude

\* an all-NaN spectrum was given a pair to exclude with exclude_action 'replace'
C13_Witness ==
    /\ ValidCall
    /\ allNaN
    /\ last.exclude.form = "pairs"
    /\ last.kw.exclude_action = "replace"
    /\ last.out.outcome = "skipped"
    /\ stored = Some(<<>>)

\* C20: a baseline call with exclude=None that reaches the fit uses exactly the regions
\* stored on the spectrum and leaves them as they are, whatever exclude_action is; so
\* a fit with exclude=None that follows a fit with exclude_action 'replace' or 'append'
\* uses the list that the earlier call stored.
C20_NoExcludeUsesPreset ==
    /\ [](Fitted /\ last.exclude.form = "none" =>
            /\ last.out.regions = last.before
            /\ stored = last.before)
    /\ [][(/\ Fitted
           /\ last.exclude.form # "none"
           /\ last.kw.exclude_action \in {"replace", "append"}
           /\ last'.out.outcome = "fit"
           /\ last'.exclude.form = "none")
          => last'.out.regions = last.out.regions /\ stored' = stored]_vars

\* a fit with exclude=None on a spectrum that holds a region from an earlier call
C20_Witness ==
    /\ Fitted
    /\ last.exclude.form = "none"
    /\ last.kw.exclude_action \in {"replace", "append"}
    /\ last.before.some
    /\ Len(last.before.v) >= 1
    /\ last.out.regions = last.before

----------------------------------------------------------------------------
(* Claims about veldef_to_convention, checked under SpecVeldef *)

VeldefDone == velPc = "done"

\* the string has four characters or more and its first four are the letters of w,
\* each one capital or small
BeginsWith(str, w) ==
    /\ Len(str) >= 4
    /\ \A i \in 1..4 : str[i] = w[i] \/ str[i] = CharUpper(w[i])

\* C15: veldef_to_convention returns 'optical' for a string that begins with "opti",
\* 'radio' for one that begins with "velo" or "radi", 'relativistic' for one that begins
\* with "rela", capitals and small letters alike, and None for every other string, the
\* empty string and the strings shorter than four characters among them.
C15_PrefixMapping ==
    VeldefDone =>
        convention =
            IF BeginsWith(veldef, <<"o", "p", "t", "i">>) THEN "optical"
            ELSE IF \/ BeginsWith(veldef, <<"v", "e", "l", "o">>)
                    \/ BeginsWith(veldef, <<"r", "a", "d", "i">>) THEN "radio"
            ELSE IF BeginsWith(veldef, <<"r", "e", "l", "a">>) THEN "relativistic"
            ELSE "None"

\* 'Velo-LSR' was mapped to 'radio'
C15_Witness ==
    /\ VeldefDone
    /\ veldef = <<"V", "e", "l", "o", "-", "L", "S", "R">>
    /\ convention = "radio"

----------------------------------------------------------------------------
(* Claims about region_to_axis_indices, checked under SpecIndices *)

IndicesDone == idxPc = "done" /\ iin # NoRegion

\* channel k is as near to b as any channel, and nearer than every channel before it
NearestLowest(k, b, n) ==
    /\ 0 <= k /\ k <= n - 1
    /\ \A m \in 0..(n - 1) : Abs(Axis(n)[k + 1] - b) <= Abs(Axis(n)[m + 1] - b)
    /\ \A m \in 0..(n - 1) : Abs(Axis(n)[m + 1] - b) = Abs(Axis(n)[k + 1] - b) => k <= m

\* C16: region_to_axis_indices raises when the unit of the region is not the unit of
\* the spectral axis; otherwise it returns two indices within [0, nchan-1], the first the
\* channel nearest to the lower bound and the second the channel nearest to the upper
\* bound, the lowest such channel when two are equally near.
C16_NearestChannels ==
    IndicesDone =>
        IF iin.u # "axis"
        THEN iout.err = "Exception"
        ELSE /\ iout.err = "none"
             /\ Len(iout.indices) = 2
             /\ NearestLowest(iout.indices[1], iin.lo, nchan)
             /\ NearestLowest(iout.indices[2], iin.hi, nchan)

\* a region whose upper bound lies midway between the first two channels
C16_Witness ==
    /\ IndicesDone
    /\ nchan >= 2
    /\ iin = Region(Axis(nchan)[1] - 2, Axis(nchan)[1] + 1, "axis")
    /\ iout = IdxOut("none", <<0, 0>>)

\* C19: on the increasing, non-velocity axis, the region that exclude_to_region makes of
\* the channel pair [i, j], 0 <= i <= j <= nchan-1, is looked up by
\* region_to_axis_indices as exactly (i, j).
C19_ChannelRoundTrip ==
    LET p == chans.pairs[1]
    IN  (/\ idxPc = "done"
         /\ chans.form = "pairs"
         /\ 0 <= p.a /\ p.a <= p.b /\ p.b <= nchan - 1)
        => iout = IdxOut("none", <<p.a, p.b>>)

\* the round trip of the channel pair [1, 2]
C19_Witness ==
    /\ idxPc = "done"
    /\ nchan >= 3
    /\ chans = Excl(TRUE, FALSE, <<Pair(1, 2, "chan")>>)
    /\ iin = Region(Axis(nchan)[2], Axis(nchan)[3], "axis")
    /\ iout = IdxOut("none", <<1, 2>>)

----------------------------------------------------------------------------
(* Claims about timeaverage, checked under SpecAverage *)

AverageDone == avgPc = "done"

\* tp.exposure.sum()
RECURSIVE ExposureSum(_)
ExposureSum(ints) == IF ints = <<>> THEN 0 ELSE Head(ints).exposure + ExposureSum(Tail(ints))

\* C17: timeaverage without a weights argument and with weights=None returns a spectrum
\* whose EXPOSURE is the sum of the exposures of the integrations; the average of two
\* identical integrations with weights=None has the flux of either and twice its exposure.
C17_ExposureAdds ==
    AverageDone /\ ain.weights \in {"default", "None"} =>
        /\ aout.exposure = Frac(ExposureSum(ain.ints), 1)
        /\ (ain.weights = "None" /\ Len(ain.ints) = 2 /\ ain.ints[1] = ain.ints[2]) =>
               /\ aout.data = AsFracs(ain.ints[1].flux)
               /\ aout.exposure = Frac(2 * ain.ints[1].exposure, 1)

\* two identical integrations of two channels averaged with weights=None
C17_Witness ==
    /\ AverageDone
    /\ ain.weights = "None"
    /\ ain.ints = <<Integration(<<1, 2>>, 2, 1), Integration(<<1, 2>>, 2, 1)>>
    /\ aout = [data |-> <<Frac(1, 1), Frac(2, 1)>>, exposure |-> Frac(4, 1)]

============================================================================
